---- MODULE Spec2Model ----
(***************************************************************************)
(* Citizen_report (src/app.py): the report ingestion pipeline              *)
(* (validate_image, get_exif_gps, submit_report) and agency registration   *)
(* (agency_register) over the two tables created by init_db and the        *)
(* upload directory.                                                       *)
(*                                                                         *)
(* Python values are tagged records: None, str (a sequence of one-char     *)
(* strings), float (an exact rational <<numerator, denominator>>).         *)
(***************************************************************************)
EXTENDS Integers, Sequences, FiniteSets, TLC

\* The field names of the records below.  TLC orders the fields of a record
\* by the first appearance of their names; naming them here in alphabetical
\* order, and writing every record that way, keeps each record in the
\* order it is written in.
FieldNames ==
    DOMAIN [GPSLatitude |-> 0, GPSLatitudeRef |-> 0, GPSLongitude |-> 0,
            GPSLongitudeRef |-> 0, agency_id |-> 0, arg |-> 0,
            content_type |-> 0, d |-> 0, description |-> 0, email |-> 0,
            exif |-> 0, fields |-> 0, file |-> 0, filename |-> 0,
            form |-> 0, gps |-> 0, handler |-> 0, hash_of |-> 0,
            image_path |-> 0, items |-> 0, kind |-> 0, latitude |-> 0,
            location_method |-> 0, longitude |-> 0, message |-> 0,
            message_given |-> 0, n |-> 0, name |-> 0, ok |-> 0,
            outcome |-> 0, password |-> 0, password_hash |-> 0,
            payload |-> 0, present |-> 0, raised |-> 0, rejected |-> 0,
            req |-> 0, result |-> 0, s |-> 0, saved |-> 0, t |-> 0,
            upload |-> 0, v |-> 0, value |-> 0]

VARIABLES
    agencies,   \* table agencies: sequence of rows, id = position
    reports,    \* table reports: sequence of rows, id = position
    uploads,    \* directory app.config['UPLOAD_FOLDER']: saved name -> file
    last        \* the response to the latest request, with what it answered

vars == <<agencies, reports, uploads, last>>

----------------------------------------------------------------------------
(* Bounds of the model.                                                    *)

MaxReports == 1

MaxAgencies == 2

----------------------------------------------------------------------------
(* Python values.                                                          *)

None == [t |-> "None"]

Str(s) == [s |-> s, t |-> "str"]

Float(q) == [t |-> "float", v |-> q]

\* A tuple or list, as EXIF values are.
SeqVal(items) == [items |-> items, t |-> "seq"]

\* bool(x) of Python for the values the code tests: None, '' and () are
\* false, a float is false exactly when it is zero.
Truthy(x) ==
    CASE x.t = "None" -> FALSE
      [] x.t = "str" -> x.s # <<>>
      [] x.t = "float" -> x.v[1] # 0
      [] x.t = "seq" -> x.items # <<>>

----------------------------------------------------------------------------
(* Exact arithmetic on the values float computes.                          *)

Abs(i) == IF i < 0 THEN -i ELSE i

RECURSIVE GCD(_, _)
GCD(a, b) == IF b = 0 THEN a ELSE GCD(b, a % b)

\* n/d in lowest terms with a positive denominator (d # 0).
Rat(n, d) ==
    LET g == GCD(Abs(n), Abs(d))
        s == IF d < 0 THEN -1 ELSE 1
    IN  <<(s * n) \div g, (s * d) \div g>>

RatAdd(a, b) == Rat(a[1] * b[2] + b[1] * a[2], a[2] * b[2])

RatDivInt(a, k) == Rat(a[1], a[2] * k)

RatNeg(a) == <<-a[1], a[2]>>

RatLeq(a, b) == a[1] * b[2] <= b[1] * a[2]

----------------------------------------------------------------------------
(* float(s) for a str s, as submit_report calls it (src/app.py:213-214).   *)
(* The strings of the model are an optional sign, decimal digits and at    *)
(* most one point; every other string of the model raises ValueError, as   *)
(* it does in Python ('' and 'abc' included).                              *)

DigitChars == <<"0", "1", "2", "3", "4", "5", "6", "7", "8", "9">>

DigitSet == {DigitChars[i] : i \in 1..Len(DigitChars)}

IsDigit(c) == c \in DigitSet

DigitVal(c) == (CHOOSE i \in 1..Len(DigitChars) : DigitChars[i] = c) - 1

RECURSIVE Pow10(_)
Pow10(k) == IF k = 0 THEN 1 ELSE 10 * Pow10(k - 1)

\* The digits of s read as one decimal numeral, the point skipped.
RECURSIVE DigitsValue(_, _)
DigitsValue(s, acc) ==
    IF s = <<>> THEN acc
    ELSE IF s[1] = "." THEN DigitsValue(Tail(s), acc)
    ELSE DigitsValue(Tail(s), 10 * acc + DigitVal(s[1]))

\* [ok |-> FALSE] is ValueError; otherwise v is the number parsed.
ParseFloat(s) ==
    LET signed == s # <<>> /\ s[1] \in {"+", "-"}
        body == IF signed THEN Tail(s) ELSE s
        points == {i \in 1..Len(body) : body[i] = "."}
        digits == {i \in 1..Len(body) : IsDigit(body[i])}
        wellformed == /\ Cardinality(points) <= 1
                      /\ digits # {}
                      /\ points \cup digits = 1..Len(body)
        decimals == IF points = {} THEN 0
                    ELSE Len(body) - (CHOOSE i \in points : TRUE)
        magnitude == Rat(DigitsValue(body, 0), Pow10(decimals))
    IN  IF ~wellformed THEN [ok |-> FALSE, v |-> <<0, 1>>]
        ELSE [ok |-> TRUE,
              v |-> IF signed /\ s[1] = "-" THEN RatNeg(magnitude) ELSE magnitude]

----------------------------------------------------------------------------
(* Uploaded files.  A file is [filename, content_type, payload]; a payload *)
(* is [kind |-> "text"] (bytes PIL cannot open) or [kind |-> "image",      *)
(* exif |-> e], e the metadata image.getexif() returns:                    *)
(*   [t |-> "empty"]                      no metadata                      *)
(*   [t |-> "tags", gps |-> g]            some tags; g the GPSInfo value:  *)
(*       [t |-> "absent"]                 no GPSInfo tag                   *)
(*       [t |-> "offset"]                 a GPSInfo value that cannot be   *)
(*                                        iterated                         *)
(*       [t |-> "ifd", fields |-> f]      f maps sub-tag names to values   *)
(* A GPSLatitude/GPSLongitude value is SeqVal of components, a component   *)
(* is [t |-> "tuple", n, d], [t |-> "number", v] or [t |-> "text"]; a      *)
(* GPSLatitudeRef/GPSLongitudeRef value is a Str.                          *)

UpperChars ==
    <<"A", "B", "C", "D", "E", "F", "G", "H", "I", "J", "K", "L", "M",
      "N", "O", "P", "Q", "R", "S", "T", "U", "V", "W", "X", "Y", "Z">>

LowerChars ==
    <<"a", "b", "c", "d", "e", "f", "g", "h", "i", "j", "k", "l", "m",
      "n", "o", "p", "q", "r", "s", "t", "u", "v", "w", "x", "y", "z">>

\* str.lower(), one character.
LowerChar(c) ==
    IF \E i \in 1..Len(UpperChars) : UpperChars[i] = c
    THEN LowerChars[CHOOSE i \in 1..Len(UpperChars) : UpperChars[i] = c]
    ELSE c

Lower(s) == [i \in 1..Len(s) |-> LowerChar(s[i])]

ALLOWED_EXTENSIONS ==
    { <<"p", "n", "g">>, <<"j", "p", "g">>, <<"j", "p", "e", "g">>,
      <<"g", "i", "f">>, <<"w", "e", "b", "p">> }

ALLOWED_MIMES == {"image/png", "image/jpeg", "image/gif", "image/webp"}

\* filename.rsplit('.', 1)[1] for a filename that holds a '.'.
RSplitDot1(filename) ==
    LET dot == CHOOSE i \in 1..Len(filename) :
                   /\ filename[i] = "."
                   /\ \A j \in (i + 1)..Len(filename) : filename[j] # "."
    IN  SubSeq(filename, dot + 1, Len(filename))

allowed_file(filename) ==
    /\ \E i \in 1..Len(filename) : filename[i] = "."
    /\ Lower(RSplitDot1(filename)) \in ALLOWED_EXTENSIONS

\* Image.open(file.stream); img.verify() succeed.
ImageVerifies(payload) == payload.kind = "image"

\* A variant without the Image.open / verify step.
validate_image_no_verify(file) ==
    IF file.filename = <<>> THEN FALSE
    ELSE IF ~allowed_file(file.filename) THEN FALSE
    ELSE IF file.content_type \notin ALLOWED_MIMES THEN FALSE
    ELSE TRUE

validate_image(file) ==
    IF file.filename = <<>> THEN FALSE
    ELSE IF ~allowed_file(file.filename) THEN FALSE
    ELSE IF file.content_type \notin ALLOWED_MIMES THEN FALSE
    ELSE ImageVerifies(file.payload)

----------------------------------------------------------------------------
(* get_exif_gps.                                                           *)

Raised == [raised |-> TRUE, v |-> <<0, 1>>]

Returned(q) == [raised |-> FALSE, v |-> q]

\* One component of a (degrees, minutes, seconds) triple as a float
\* (src/app.py:139-141): a tuple is numerator / denominator, anything else
\* goes through float().
ComponentToFloat(c) ==
    CASE c.t = "tuple" -> IF c.d = 0 THEN Raised ELSE Returned(Rat(c.n, c.d))
      [] c.t = "number" -> Returned(Rat(c.v, 1))
      [] c.t = "text" -> Raised

convert_to_degrees(value) ==
    IF Len(value.items) # 3 THEN Raised
    ELSE LET d == ComponentToFloat(value.items[1])
             m == ComponentToFloat(value.items[2])
             s == ComponentToFloat(value.items[3])
         IN  IF d.raised \/ m.raised \/ s.raised THEN Raised
             ELSE Returned(RatAdd(d.v, RatAdd(RatDivInt(m.v, 60),
                                             RatDivInt(s.v, 3600))))

GpsDict(lat, lon) == [latitude |-> lat, longitude |-> lon, t |-> "dict"]

\* gps_info.get(key): None when the sub-tag is missing.
GpsGet(fields, key) == IF key \in DOMAIN fields THEN fields[key] ELSE None

\* The body of the try block: [raised |-> TRUE] when an exception leaves
\* it, otherwise the value the function reaches its return with.
GetExifGpsTry(payload) ==
    IF payload.kind # "image" THEN [raised |-> TRUE, value |-> None]
    ELSE IF payload.exif.t = "empty" THEN [raised |-> FALSE, value |-> None]
    ELSE IF payload.exif.gps.t = "offset" THEN [raised |-> TRUE, value |-> None]
    ELSE IF payload.exif.gps.t = "absent" THEN [raised |-> FALSE, value |-> None]
    ELSE IF DOMAIN payload.exif.gps.fields = {} THEN [raised |-> FALSE, value |-> None]
    ELSE LET gps_info == payload.exif.gps.fields
             lat == GpsGet(gps_info, "GPSLatitude")
             lat_ref == GpsGet(gps_info, "GPSLatitudeRef")
             lon == GpsGet(gps_info, "GPSLongitude")
             lon_ref == GpsGet(gps_info, "GPSLongitudeRef")
         IN  IF Truthy(lat) /\ Truthy(lon) /\ Truthy(lat_ref) /\ Truthy(lon_ref)
             THEN LET la == convert_to_degrees(lat)
                      lo == convert_to_degrees(lon)
                  IN  IF la.raised \/ lo.raised
                      THEN [raised |-> TRUE, value |-> None]
                      ELSE [raised |-> FALSE,
                            value |-> GpsDict(
                                IF lat_ref = Str(<<"S">>) THEN RatNeg(la.v) ELSE la.v,
                                IF lon_ref = Str(<<"W">>) THEN RatNeg(lo.v) ELSE lo.v)]
             ELSE [raised |-> FALSE, value |-> None]

Propagated == [t |-> "raise"]

\* A variant without the except clause.
get_exif_gps_uncaught(payload) ==
    LET r == GetExifGpsTry(payload)
    IN  IF r.raised THEN Propagated ELSE r.value

\* try: ... except Exception: print(...); return None
get_exif_gps(payload) ==
    LET r == GetExifGpsTry(payload)
    IN  IF r.raised THEN None ELSE r.value

----------------------------------------------------------------------------
(* secure_filename(f"{timestamp}_{file.filename}") (src/app.py:198): path  *)
(* separators become spaces, runs of whitespace become one '_', characters *)
(* outside [A-Za-z0-9_.-] are dropped, leading and trailing '.' and '_'    *)
(* are stripped.                                                           *)

SafeChars ==
    {DigitChars[i] : i \in 1..Len(DigitChars)}
        \cup {LowerChars[i] : i \in 1..Len(LowerChars)}
        \cup {UpperChars[i] : i \in 1..Len(UpperChars)}
        \cup {"_", ".", "-"}

IsSafeChar(c) == c \in SafeChars

SepToSpace(s) == [i \in 1..Len(s) |-> IF s[i] = "/" THEN " " ELSE s[i]]

\* "_".join(s.split()): whitespace is dropped, and a word that follows
\* whitespace and an earlier word is preceded by one '_'.
JoinWords(s) ==
    LET starts(i) == /\ s[i] # " "
                     /\ i > 1
                     /\ s[i - 1] = " "
                     /\ \E j \in 1..(i - 1) : s[j] # " "
        spread == [k \in 1..(2 * Len(s)) |->
                      LET i == (k + 1) \div 2
                      IN  IF k % 2 = 1
                          THEN IF starts(i) THEN "_" ELSE ""
                          ELSE IF s[i] = " " THEN "" ELSE s[i]]
        Kept(c) == c # ""
    IN  SelectSeq(spread, Kept)

\* The first position from i on, and the last up to i, that strip("._")
\* keeps.
RECURSIVE FirstKept(_, _)
FirstKept(s, i) ==
    IF i <= Len(s) /\ s[i] \in {".", "_"} THEN FirstKept(s, i + 1) ELSE i

RECURSIVE LastKept(_, _)
LastKept(s, i) ==
    IF i >= 1 /\ s[i] \in {".", "_"} THEN LastKept(s, i - 1) ELSE i

\* s.strip("._")
Strip(s) == SubSeq(s, FirstKept(s, 1), LastKept(s, Len(s)))

secure_filename(s) == Strip(SelectSeq(JoinWords(SepToSpace(s)), IsSafeChar))

\* datetime.now().strftime('%Y%m%d_%H%M%S') at the one instant the model
\* takes every upload to arrive at: equal original names collide, and the
\* later file.save() overwrites the earlier file.
Timestamp ==
    <<"2", "0", "2", "4", "0", "1", "0", "1", "_", "1", "2", "0", "0", "0", "0">>

SavedName(file) == secure_filename(Timestamp \o <<"_">> \o file.filename)

----------------------------------------------------------------------------
(* submit_report, POST (src/app.py:178-231).                               *)
(* A request is an agency_id from the URL, a form (a function from the     *)
(* field names sent to their values) and an upload: [present |-> FALSE]    *)
(* when request.files has no 'image', else [present |-> TRUE, file |-> f]. *)

NoUpload == [present |-> FALSE]

Upload(f) == [file |-> f, present |-> TRUE]

\* request.form.get(key) for a text field.
FormGet(form, key) == IF key \in DOMAIN form THEN Str(form[key]) ELSE None

\* request.form.get('location_method', 'manual')
FormGetMethod(form) ==
    IF "location_method" \in DOMAIN form THEN form["location_method"] ELSE "manual"

\* `file and file.filename` (src/app.py:190-192)
HasImage(upload) == upload.present /\ upload.file.filename # <<>>

Location(lat, lon, method) ==
    [latitude |-> lat, location_method |-> method, longitude |-> lon]

\* src/app.py:204-209, gps_data being what get_exif_gps returned.
ResolveFromImage(loc, gps_data) ==
    IF ~Truthy(loc.latitude) \/ ~Truthy(loc.longitude)
    THEN IF gps_data.t = "dict"
         THEN Location(Float(gps_data.latitude), Float(gps_data.longitude), "exif")
         ELSE loc
    ELSE loc

\* float(x): a float is itself, a str is parsed.
PyFloat(x) ==
    IF x.t = "float" THEN [ok |-> TRUE, v |-> x.v] ELSE ParseFloat(x.s)

\* src/app.py:212-217
ConvertCoordinates(loc) ==
    LET la == IF Truthy(loc.latitude) THEN PyFloat(loc.latitude)
              ELSE [ok |-> TRUE, v |-> <<0, 1>>]
        lo == IF Truthy(loc.longitude) THEN PyFloat(loc.longitude)
              ELSE [ok |-> TRUE, v |-> <<0, 1>>]
    IN  IF ~la.ok \/ ~lo.ok
        THEN Location(None, None, loc.location_method)
        ELSE Location(IF Truthy(loc.latitude) THEN Float(la.v) ELSE None,
                      IF Truthy(loc.longitude) THEN Float(lo.v) ELSE None,
                      loc.location_method)

\* A value fits DECIMAL(p, 8) when fewer than p - 8 digits precede the point.
FitsDecimal(x, limit) ==
    x = None \/ (RatLeq(x.v, <<limit, 1>>) /\ x.v # <<limit, 1>>
                 /\ RatLeq(<<-limit, 1>>, x.v) /\ x.v # <<-limit, 1>>)

\* The INSERT succeeds: agency_id REFERENCES agencies(id), latitude
\* DECIMAL(10, 8), longitude DECIMAL(11, 8) (src/app.py:79-90).
InsertReportOk(agency_rows, row) ==
    /\ row.agency_id \in 1..Len(agency_rows)
    /\ FitsDecimal(row.latitude, 100)
    /\ FitsDecimal(row.longitude, 1000)

\* What the response to the latest request recalls of the request.
UploadMeta(upload) ==
    IF upload.present
    THEN [content_type |-> upload.file.content_type,
          filename |-> upload.file.filename,
          kind |-> upload.file.payload.kind,
          present |-> TRUE]
    ELSE [content_type |-> "", filename |-> <<>>, kind |-> "", present |-> FALSE]

Response(handler, outcome, form, upload) ==
    [handler |-> handler,
     message_given |-> Truthy(FormGet(form, "message")),
     outcome |-> outcome,
     upload |-> UploadMeta(upload)]

\* A variant that drops an invalid image and carries on without it.
UploadStep_drop_invalid(upload) ==
    IF HasImage(upload) /\ validate_image(upload.file)
    THEN [rejected |-> FALSE, saved |-> TRUE]
    ELSE [rejected |-> FALSE, saved |-> FALSE]

\* src/app.py:189-201: an image that fails validation rejects the request,
\* one that passes is saved; no image, nothing to do.
UploadStep(upload) ==
    IF HasImage(upload)
    THEN IF ~validate_image(upload.file)
         THEN [rejected |-> TRUE, saved |-> FALSE]
         ELSE [rejected |-> FALSE, saved |-> TRUE]
    ELSE [rejected |-> FALSE, saved |-> FALSE]

\* file.save(filepath): the directory after the write.
SaveFile(dir, name, file) ==
    [n \in DOMAIN dir \cup {name} |-> IF n = name THEN file ELSE dir[n]]

\* The row the INSERT binds (src/app.py:222-225); req is the request it
\* came from, kept beside the row to state the claims.
ReportRow(agency_id, message, image_path, loc, form, upload) ==
    [agency_id |-> agency_id,
     image_path |-> image_path,
     latitude |-> loc.latitude,
     location_method |-> loc.location_method,
     longitude |-> loc.longitude,
     message |-> message,
     req |-> [form |-> form, upload |-> upload]]

submit_report(agency_id, form, upload) ==
    /\ Len(reports) < MaxReports
    /\ LET message == FormGet(form, "message")
           supplied == Location(FormGet(form, "latitude"),
                                FormGet(form, "longitude"),
                                FormGetMethod(form))
           step == UploadStep(upload)
           filename == SavedName(upload.file)
           image_path == IF step.saved THEN Str(filename) ELSE None
           extracts == /\ step.saved
                       /\ ~Truthy(supplied.latitude) \/ ~Truthy(supplied.longitude)
           gps_data == get_exif_gps(upload.file.payload)
           resolved == IF step.saved THEN ResolveFromImage(supplied, gps_data)
                       ELSE supplied
           row == ReportRow(agency_id, message, image_path,
                            ConvertCoordinates(resolved), form, upload)
           saved_dir == IF step.saved THEN SaveFile(uploads, filename, upload.file)
                        ELSE uploads
       IN  IF ~Truthy(message)
           THEN /\ last' = Response("submit_report", "no_message", form, upload)
                /\ UNCHANGED <<agencies, reports, uploads>>
           ELSE IF step.rejected
           THEN /\ last' = Response("submit_report", "invalid_image", form, upload)
                /\ UNCHANGED <<agencies, reports, uploads>>
           ELSE IF extracts /\ gps_data = Propagated
           THEN \* an exception leaving get_exif_gps ends the handler
                /\ last' = Response("submit_report", "server_error", form, upload)
                /\ uploads' = saved_dir
                /\ UNCHANGED <<agencies, reports>>
           ELSE IF ~InsertReportOk(agencies, row)
           THEN \* the INSERT raises; a file already saved stays
                /\ last' = Response("submit_report", "db_error", form, upload)
                /\ uploads' = saved_dir
                /\ UNCHANGED <<agencies, reports>>
           ELSE /\ last' = Response("submit_report", "submitted", form, upload)
                /\ uploads' = saved_dir
                /\ reports' = Append(reports, row)
                /\ UNCHANGED agencies

\* A caller's pending call of validate_image or get_exif_gps.
Call(handler, arg) == [arg |-> arg, handler |-> handler, outcome |-> "called"]

\* validate_image(file) runs and returns.
ValidateImage ==
    /\ last.handler = "validate_image"
    /\ last.outcome = "called"
    /\ last' = [arg |-> last.arg,
                handler |-> "validate_image",
                outcome |-> "returned",
                result |-> validate_image(last.arg)]
    /\ UNCHANGED <<agencies, reports, uploads>>

\* get_exif_gps(image_path) runs on a file holding the payload and returns,
\* or lets an exception out.
GetExifGps ==
    /\ last.handler = "get_exif_gps"
    /\ last.outcome = "called"
    /\ last' = [arg |-> last.arg,
                handler |-> "get_exif_gps",
                outcome |-> "returned",
                result |-> get_exif_gps(last.arg)]
    /\ UNCHANGED <<agencies, reports, uploads>>

----------------------------------------------------------------------------
(* agency_register, POST (src/app.py:249-280).                             *)

\* curr.execute('SELECT * FROM agencies WHERE email = %s OR name = %s',
\*              (name, email)); existing = curr.fetchone()
ExistingAgency(agency_rows, name, email) ==
    \E i \in 1..Len(agency_rows) :
        agency_rows[i].email = name.s \/ agency_rows[i].name = email.s

\* The INSERT succeeds: name and email are UNIQUE (src/app.py:70-71).
InsertAgencyOk(agency_rows, name, email) ==
    \A i \in 1..Len(agency_rows) :
        agency_rows[i].name # name.s /\ agency_rows[i].email # email.s

RegisterResponse(outcome, form) ==
    [email |-> FormGet(form, "email"),
     handler |-> "agency_register",
     name |-> FormGet(form, "name"),
     outcome |-> outcome]

agency_register(form) ==
    /\ Len(agencies) < MaxAgencies
    /\ LET password == FormGet(form, "password")
           name == FormGet(form, "name")
           email == FormGet(form, "email")
           description == FormGet(form, "description")
       IN  IF ~Truthy(name) \/ ~Truthy(email) \/ ~Truthy(password)
           THEN /\ last' = RegisterResponse("fields_required", form)
                /\ UNCHANGED <<agencies, reports, uploads>>
           ELSE IF ExistingAgency(agencies, name, email)
           THEN /\ last' = RegisterResponse("duplicate", form)
                /\ UNCHANGED <<agencies, reports, uploads>>
           ELSE IF ~InsertAgencyOk(agencies, name, email)
           THEN \* the INSERT raises on a UNIQUE constraint; nothing is committed
                /\ last' = RegisterResponse("db_error", form)
                /\ UNCHANGED <<agencies, reports, uploads>>
           ELSE /\ last' = RegisterResponse("registered", form)
                /\ agencies' = Append(agencies,
                       [description |-> description,
                        email |-> email.s,
                        name |-> name.s,
                        password_hash |-> [hash_of |-> password.s]])
                /\ UNCHANGED <<reports, uploads>>

----------------------------------------------------------------------------
(* The state after init_db on an empty database and an empty upload        *)
(* directory.                                                              *)

Init ==
    /\ agencies = <<>>
    /\ reports = <<>>
    /\ uploads = [n \in {} |-> None]
    /\ last = [handler |-> "none", outcome |-> "none"]

----------------------------------------------------------------------------
(* The requests of the model.  A field that is not sent is drawn as Absent *)
(* (AbsentMethod for location_method) and left out of the form.            *)

Absent == <<"(absent)">>

AbsentMethod == "(absent)"

ReportForm(message, latitude, longitude, method) ==
    LET value == [latitude |-> latitude,
                  longitude |-> longitude,
                  message |-> message]
        sent == {k \in DOMAIN value : value[k] # Absent}
                    \cup (IF method # AbsentMethod THEN {"location_method"} ELSE {})
    IN  [k \in sent |-> IF k = "location_method" THEN method ELSE value[k]]

RegisterForm(name, email, password) ==
    LET value == [email |-> email, name |-> name, password |-> password]
    IN  [k \in {f \in DOMAIN value : value[f] # Absent} |-> value[k]]

Messages == {Absent, <<>>, <<"p", "o", "t", "h", "o", "l", "e">>}

\* not sent, empty, not a number, zero, in range, out of range
Latitudes == {Absent, <<>>, <<"a", "b", "c">>, <<"0">>, <<"1", "2", ".", "3", "4">>, <<"9", "5">>}

Longitudes == {Absent, <<>>, <<"a", "b", "c">>, <<"0">>, <<"5", "6", ".", "7", "8">>}

Methods == {AbsentMethod, "manual", "exif", "gps"}

Tuple(n, d) == [d |-> d, n |-> n, t |-> "tuple"]

Number(v) == [t |-> "number", v |-> v]

Ifd(fields) == [exif |-> [gps |-> [fields |-> fields, t |-> "ifd"], t |-> "tags"], kind |-> "image"]

NotAnImage == [kind |-> "text"]

NoExif == [exif |-> [t |-> "empty"], kind |-> "image"]

NoGpsTag == [exif |-> [gps |-> [t |-> "absent"], t |-> "tags"], kind |-> "image"]

GpsOffset == [exif |-> [gps |-> [t |-> "offset"], t |-> "tags"], kind |-> "image"]

\* 40 deg 26' 46.02" as rational tuples, 79 deg 58' 56" as plain numbers
DmsPittsburghLat == SeqVal(<<Tuple(40, 1), Tuple(26, 1), Tuple(4602, 100)>>)

DmsPittsburghLon == SeqVal(<<Number(79), Number(58), Number(56)>>)

DmsZero == SeqVal(<<Tuple(0, 1), Tuple(0, 1), Tuple(0, 1)>>)

DmsZeroDenominator == SeqVal(<<Tuple(40, 1), Tuple(26, 0), Tuple(46, 1)>>)

DmsPair == SeqVal(<<Tuple(40, 1), Tuple(26, 1)>>)

DmsText == SeqVal(<<Number(40), [t |-> "text"], Number(46)>>)

Dms95 == SeqVal(<<Number(95), Number(0), Number(0)>>)

GpsFields(lat, lat_ref, lon, lon_ref) ==
    [GPSLatitude |-> lat,
     GPSLatitudeRef |-> Str(<<lat_ref>>),
     GPSLongitude |-> lon,
     GPSLongitudeRef |-> Str(<<lon_ref>>)]

File(filename, content_type, payload) ==
    [content_type |-> content_type, filename |-> filename, payload |-> payload]

PhotoJpg == <<"p", "h", "o", "t", "o", ".", "j", "p", "g">>

\* The uploads of Spec: none, the empty part a browser sends when no file
\* was chosen, two files validate_image refuses, and photos with and
\* without usable GPS metadata.
Uploads ==
    { NoUpload,
      Upload(File(<<>>, "application/octet-stream", NotAnImage)),
      Upload(File(<<"n", "o", "t", "e", "s", ".", "t", "x", "t">>, "text/plain", NotAnImage)),
      Upload(File(<<"s", "c", "r", "i", "p", "t", ".", "p", "n", "g">>, "image/png", NotAnImage)),
      Upload(File(PhotoJpg, "image/jpeg", NoExif)),
      Upload(File(PhotoJpg, "image/jpeg",
                  Ifd(GpsFields(DmsPittsburghLat, "N", DmsPittsburghLon, "W")))),
      Upload(File(PhotoJpg, "image/jpeg",
                  Ifd(GpsFields(DmsZero, "N", DmsPittsburghLon, "E")))),
      Upload(File(PhotoJpg, "image/jpeg",
                  Ifd(GpsFields(Dms95, "S", DmsPittsburghLon, "W")))),
      Upload(File(PhotoJpg, "image/jpeg",
                  Ifd(GpsFields(DmsZeroDenominator, "N", DmsPittsburghLon, "W")))) }

AgencyIds == {1, 2}

AgencyNames == {Absent, <<"r", "o", "a", "d", "s">>}

AgencyEmails == {Absent, <<"r", "o", "a", "d", "s", "@", "c", "i", "t", "y", ".", "g", "o", "v">>}

Passwords == {Absent, <<"s", "e", "c", "r", "e", "t">>}

SubmitReport ==
    \E agency_id \in AgencyIds, message \in Messages, latitude \in Latitudes,
       longitude \in Longitudes, method \in Methods, upload \in Uploads :
        submit_report(agency_id, ReportForm(message, latitude, longitude, method),
                      upload)

AgencyRegister ==
    \E name \in AgencyNames, email \in AgencyEmails, password \in Passwords :
        agency_register(RegisterForm(name, email, password))

Next == SubmitReport \/ AgencyRegister

Spec == Init /\ [][Next]_vars

----------------------------------------------------------------------------
(* The state after one agency has registered: what Spec reaches from Init  *)
(* by agency_register with the form below.                                 *)

RoadsForm == RegisterForm(<<"r", "o", "a", "d", "s">>, <<"r", "o", "a", "d", "s", "@", "c", "i", "t", "y", ".", "g", "o", "v">>, <<"s", "e", "c", "r", "e", "t">>)

RoadsAgency ==
    [description |-> None,
     email |-> <<"r", "o", "a", "d", "s", "@", "c", "i", "t", "y", ".", "g", "o", "v">>,
     name |-> <<"r", "o", "a", "d", "s">>,
     password_hash |-> [hash_of |-> <<"s", "e", "c", "r", "e", "t">>]]

----------------------------------------------------------------------------
(* SpecUpload: validate_image on every candidate file of CandidateFiles,   *)
(* and submit_report for an agency that exists (1) or not (2).             *)

CandidateFilenames ==
    { <<"a", ".", "p", "n", "g">>, <<"a", ".", "P", "N", "G">>, <<"a", ".", "J", "p", "e", "g">>, <<"a", ".", "g", "i", "f">>, <<"a", ".", "w", "e", "b", "p">>, <<"a", ".", "j", "p", "g">>, <<"a", ".", "t", "x", "t">>, <<"p", "n", "g">>,
      <<"a", ".", "p", "n", "g", ".", "e", "x", "e">>, <<"a", ".", "e", "x", "e", ".", "p", "n", "g">>, <<".", ".", "/", "a", ".", "g", "i", "f">>, <<"a", ".">>, <<>> }

CandidateContentTypes ==
    {"image/png", "image/jpeg", "image/gif", "image/webp", "text/plain",
     "image/svg+xml", "IMAGE/PNG"}

CandidatePayloads ==
    {NotAnImage, NoExif,
     Ifd(GpsFields(DmsPittsburghLat, "N", DmsPittsburghLon, "W"))}

CandidateFiles ==
    {File(n, c, p) : n \in CandidateFilenames, c \in CandidateContentTypes,
                     p \in CandidatePayloads}

UploadRequests ==
    Uploads \cup
    { Upload(File(<<"a", ".", "P", "N", "G">>, "image/png", NoExif)),
      Upload(File(<<".", ".", "/", "a", ".", "g", "i", "f">>, "image/gif", NoExif)),
      Upload(File(PhotoJpg, "text/plain", NoExif)),
      Upload(File(<<"a", ".", "p", "n", "g", ".", "e", "x", "e">>, "image/png", NoExif)) }

InitUpload ==
    /\ agencies = <<RoadsAgency>>
    /\ reports = <<>>
    /\ uploads = [n \in {} |-> None]
    /\ \E file \in CandidateFiles : last = Call("validate_image", file)

SubmitUpload ==
    \E agency_id \in AgencyIds, message \in Messages,
       latitude \in {Absent, <<"1", "2", ".", "3", "4">>}, upload \in UploadRequests :
        submit_report(agency_id,
                      ReportForm(message, latitude, Absent, AbsentMethod), upload)

NextUpload == ValidateImage \/ SubmitUpload

SpecUpload == InitUpload /\ [][NextUpload]_vars

----------------------------------------------------------------------------
(* SpecExif: get_exif_gps on every payload of ExifPayloads, and            *)
(* submit_report with photos that carry them.                              *)

Missing == [t |-> "missing"]

\* A GPSInfo block holding the sub-tags that are not Missing.
GpsBlock(lat, lat_ref, lon, lon_ref) ==
    LET value == [GPSLatitude |-> lat,
                  GPSLatitudeRef |-> lat_ref,
                  GPSLongitude |-> lon,
                  GPSLongitudeRef |-> lon_ref]
    IN  Ifd([k \in {f \in DOMAIN value : value[f] # Missing} |-> value[k]])

DmsLonZeroDenominator == SeqVal(<<Number(79), Number(58), Tuple(56, 0)>>)

ExifLatitudes ==
    {Missing, SeqVal(<<>>), DmsPittsburghLat, DmsZero, Dms95,
     DmsZeroDenominator, DmsPair, DmsText}

ExifLatitudeRefs == {Missing, Str(<<>>), Str(<<"N">>), Str(<<"S">>)}

ExifLongitudes == {Missing, DmsPittsburghLon, DmsLonZeroDenominator}

ExifLongitudeRefs == {Missing, Str(<<"W">>), Str(<<"E">>)}

ExifPayloads ==
    {NoExif, NoGpsTag, GpsOffset} \cup
    {GpsBlock(lat, lat_ref, lon, lon_ref) :
        lat \in ExifLatitudes, lat_ref \in ExifLatitudeRefs,
        lon \in ExifLongitudes, lon_ref \in ExifLongitudeRefs}

InitExif ==
    /\ agencies = <<RoadsAgency>>
    /\ reports = <<>>
    /\ uploads = [n \in {} |-> None]
    /\ \E payload \in ExifPayloads \cup {NotAnImage} :
           last = Call("get_exif_gps", payload)

SubmitExif ==
    \E latitude \in {Absent, <<"1", "2", ".", "3", "4">>}, payload \in ExifPayloads :
        submit_report(1, ReportForm(<<"p", "o", "t", "h", "o", "l", "e">>, latitude, Absent, AbsentMethod),
                      Upload(File(PhotoJpg, "image/jpeg", payload)))

NextExif == GetExifGps \/ SubmitExif

SpecExif == InitExif /\ [][NextExif]_vars

----------------------------------------------------------------------------
(* SpecAgency: agency_register alone, names and emails drawn from the same *)
(* strings.                                                                *)

AgencyStrings == {Absent, <<>>, <<"r", "o", "a", "d", "s">>, <<"p", "a", "r", "k", "s">>, <<"i", "n", "f", "o", "@", "c", "i", "t", "y", ".", "g", "o", "v">>}

RegisterAny ==
    \E name \in AgencyStrings, email \in AgencyStrings, password \in Passwords :
        agency_register(RegisterForm(name, email, password))

NextAgency == RegisterAny

SpecAgency == Init /\ [][NextAgency]_vars

----------------------------------------------------------------------------
(* The claims.  Rows is the reports table; a row's req is the request that *)
(* produced it.                                                            *)

Rows == {reports[i] : i \in 1..Len(reports)}

\* The submitter sent no value for the field: not sent, or sent empty.
NotSupplied(form, key) == key \notin DOMAIN form \/ form[key] = <<>>

\* The field was sent as a parseable number.
Parseable(form, key) == key \in DOMAIN form /\ ParseFloat(form[key]).ok

\* The field was sent non-empty and is not a number.
Malformed(form, key) ==
    key \in DOMAIN form /\ form[key] # <<>> /\ ~ParseFloat(form[key]).ok

\* The request carried an image and validate_image accepted it.
ValidImageAttached(req) ==
    /\ req.upload.present
    /\ req.upload.file.filename # <<>>
    /\ validate_image(req.upload.file)

\* get_exif_gps yields coordinates from the request's image.
GpsExtractable(req) ==
    ValidImageAttached(req) /\ get_exif_gps(req.upload.file.payload).t = "dict"

\* The row stores exactly the pair get_exif_gps returns for its image.
StoresExifPair(r) ==
    /\ GpsExtractable(r.req)
    /\ r.latitude = Float(get_exif_gps(r.req.upload.file.payload).latitude)
    /\ r.longitude = Float(get_exif_gps(r.req.upload.file.payload).longitude)

\* The row stores exactly the pair the submitter typed.
StoresFormPair(r) ==
    /\ Parseable(r.req.form, "latitude")
    /\ Parseable(r.req.form, "longitude")
    /\ r.latitude = Float(ParseFloat(r.req.form["latitude"]).v)
    /\ r.longitude = Float(ParseFloat(r.req.form["longitude"]).v)

\* C1: every persisted report has latitude and longitude both present or
\* both absent.
C1_BothOrNeither ==
    \A r \in Rows : (r.latitude = None) <=> (r.longitude = None)

\* C2: location_method is 'exif' only if the stored coordinates came from
\* get_exif_gps on the saved image, 'manual' only if the submitter supplied
\* the stored coordinates; a submission with no manual coordinates and no
\* image, or an image without GPS data, is persisted with absent
\* coordinates and a method that is neither 'manual' nor 'exif'.
C2_MethodMatchesSource ==
    \A r \in Rows :
        /\ r.location_method = "exif" => StoresExifPair(r)
        /\ r.location_method = "manual" => StoresFormPair(r)
        /\ ( /\ NotSupplied(r.req.form, "latitude")
             /\ NotSupplied(r.req.form, "longitude")
             /\ ~GpsExtractable(r.req) )
           => /\ r.latitude = None
              /\ r.longitude = None
              /\ r.location_method \notin {"manual", "exif"}

\* C3: malformed manual coordinates with a valid image attached are treated
\* as absent: when the image yields coordinates the report carries them
\* with method exif, and the submission is never rejected for them.
C3_MalformedFallsThroughToExif ==
    /\ \A r \in Rows :
           ( /\ Malformed(r.req.form, "latitude") \/ Malformed(r.req.form, "longitude")
             /\ GpsExtractable(r.req) )
           => StoresExifPair(r) /\ r.location_method = "exif"
    /\ ( /\ last.handler = "submit_report"
         /\ last.outcome \in {"no_message", "invalid_image"} )
       => \/ ~last.message_given
          \/ /\ last.upload.present
             /\ last.upload.filename # <<>>

\* C4: with no manual latitude and longitude and a valid image whose GPS
\* block yields a pair, the report has method exif and exactly that pair,
\* a latitude or longitude of exactly 0 included.
C4_ExifPairPersisted ==
    \A r \in Rows :
        ( /\ NotSupplied(r.req.form, "latitude")
          /\ NotSupplied(r.req.form, "longitude")
          /\ GpsExtractable(r.req) )
        => StoresExifPair(r) /\ r.location_method = "exif"

\* C5: when both latitude and longitude are supplied as parseable numbers
\* the report carries exactly those and method manual, whatever the image
\* holds and whatever location_method the form sent.
C5_ManualWins ==
    \A r \in Rows :
        (Parseable(r.req.form, "latitude") /\ Parseable(r.req.form, "longitude"))
        => StoresFormPair(r) /\ r.location_method = "manual"

\* C9: every persisted report with coordinates has latitude in [-90, 90]
\* and longitude in [-180, 180].
C9_CoordinatesInRange ==
    \A r \in Rows :
        /\ r.latitude # None
           => RatLeq(<<-90, 1>>, r.latitude.v) /\ RatLeq(r.latitude.v, <<90, 1>>)
        /\ r.longitude # None
           => RatLeq(<<-180, 1>>, r.longitude.v) /\ RatLeq(r.longitude.v, <<180, 1>>)

\* The request carried an image: a file part with a filename.
ImageAttached(req) == req.upload.present /\ req.upload.file.filename # <<>>

\* The latest response is a validation error of submit_report.
ValidationError(response) ==
    /\ response.handler = "submit_report"
    /\ response.outcome \in {"no_message", "invalid_image"}

\* C6: a submit_report POST that ends in a validation error (no message,
\* or an image that fails validate_image) writes no file and inserts no
\* row, and no report is persisted from a request whose attached image
\* fails validation.
C6_ValidationErrorMutatesNothing ==
    [][ /\ ValidationError(last') => UNCHANGED <<agencies, reports, uploads>>
        /\ \A r \in Rows' :
               ImageAttached(r.req)
               => validate_image(r.req.upload.file) /\ r.image_path # None ]_vars

\* An empty message together with a valid image: rejected, nothing saved.
C6_Witness ==
    /\ ValidationError(last)
    /\ last.outcome = "no_message"
    /\ last.upload = UploadMeta(Upload(File(PhotoJpg, "image/jpeg", NoExif)))
    /\ DOMAIN uploads = {}
    /\ reports = <<>>

\* The filename ends in '.' and an allowed extension, in any letter case.
HasAllowedExtension(filename) ==
    \E ext \in ALLOWED_EXTENSIONS :
        /\ Len(filename) > Len(ext)
        /\ filename[Len(filename) - Len(ext)] = "."
        /\ Lower(SubSeq(filename, Len(filename) - Len(ext) + 1, Len(filename))) = ext

\* The three checks of the Image Validator.
PassesAllChecks(filename, content_type, kind) ==
    /\ HasAllowedExtension(filename)
    /\ content_type \in {"image/png", "image/jpeg", "image/gif", "image/webp"}
    /\ kind = "image"

FilePasses(file) ==
    PassesAllChecks(file.filename, file.content_type, file.payload.kind)

\* C7: validate_image accepts no file whose extension or content-type is
\* outside the allowed sets or whose bytes are not an image, so every file
\* in the upload directory and every image_path of a report comes from an
\* upload that passed all three checks.
C7_OnlyValidatedImagesStored ==
    /\ ( /\ last.handler = "validate_image"
         /\ last.outcome = "returned"
         /\ last.result )
       => FilePasses(last.arg)
    /\ ( /\ last.handler = "submit_report"
         /\ last.outcome \notin {"no_message", "invalid_image"}
         /\ last.upload.present
         /\ last.upload.filename # <<>> )
       => PassesAllChecks(last.upload.filename, last.upload.content_type,
                          last.upload.kind)
    /\ \A n \in DOMAIN uploads : FilePasses(uploads[n])
    /\ \A r \in Rows :
           r.image_path # None
           => ImageAttached(r.req) /\ FilePasses(r.req.upload.file)

\* A text file named .png with an image content-type is refused while the
\* directory holds a saved upload.
C7_Witness ==
    /\ last.handler = "submit_report"
    /\ last.outcome = "invalid_image"
    /\ last.upload = UploadMeta(Upload(File(<<"s", "c", "r", "i", "p", "t", ".", "p", "n", "g">>, "image/png", NotAnImage)))
    /\ DOMAIN uploads # {}

\* Some component of the triple is a rational with denominator zero.
HasZeroDenominator(value) ==
    \E i \in 1..Len(value.items) :
        value.items[i].t = "tuple" /\ value.items[i].d = 0

\* The triple is not three numeric components.
MalformedTriple(value) ==
    \/ Len(value.items) # 3
    \/ \E i \in 1..Len(value.items) : value.items[i].t = "text"

\* The failure cases of the GPS Extractor: an undecodable file, empty
\* metadata, no usable GPS sub-block, one of the four fields missing, a
\* malformed triple, a zero denominator.
ExtractionFailure(payload) ==
    IF payload.kind # "image" THEN TRUE
    ELSE IF payload.exif.t = "empty" THEN TRUE
    ELSE IF payload.exif.gps.t # "ifd" THEN TRUE
    ELSE LET fields == payload.exif.gps.fields
         IN  IF DOMAIN fields # {"GPSLatitude", "GPSLatitudeRef",
                                 "GPSLongitude", "GPSLongitudeRef"}
             THEN TRUE
             ELSE \/ MalformedTriple(fields["GPSLatitude"])
                  \/ MalformedTriple(fields["GPSLongitude"])
                  \/ HasZeroDenominator(fields["GPSLatitude"])
                  \/ HasZeroDenominator(fields["GPSLongitude"])

\* C10: get_exif_gps never lets a failure out: it returns a pair or None,
\* and None in each failure case, the zero denominator included; and
\* submit_report then persists the report without coordinates from the
\* image.
C10_ExtractionNeverFails ==
    /\ (last.handler = "get_exif_gps" /\ last.outcome = "returned")
       => /\ last.result = None \/ last.result.t = "dict"
          /\ ExtractionFailure(last.arg) => last.result = None
    /\ last.handler = "submit_report" => last.outcome = "submitted"
    /\ \A r \in Rows :
           (ImageAttached(r.req) /\ ExtractionFailure(r.req.upload.file.payload))
           => /\ r.image_path # None
              /\ r.location_method # "exif"
              /\ r.longitude = None
              /\ NotSupplied(r.req.form, "latitude") => r.latitude = None
              /\ Parseable(r.req.form, "latitude")
                 => r.latitude = Float(ParseFloat(r.req.form["latitude"]).v)

\* A photo whose latitude has a zero denominator was submitted with no
\* manual coordinates and persisted without coordinates.
C10_Witness ==
    \E r \in Rows :
        /\ ImageAttached(r.req)
        /\ r.req.upload.file.payload
               = GpsBlock(DmsZeroDenominator, Str(<<"N">>), DmsPittsburghLon, Str(<<"W">>))
        /\ NotSupplied(r.req.form, "latitude")
        /\ r.latitude = None
        /\ r.longitude = None
        /\ r.image_path # None

\* C8: no two stored agencies share an email or a name; an attempt is
\* refused as a duplicate only when its name or its email equals that of
\* a stored agency, and a refused attempt adds no row.
C8_DuplicatesAndOnlyDuplicatesRejected ==
    /\ \A i, j \in 1..Len(agencies) :
           i # j => /\ agencies[i].name # agencies[j].name
                    /\ agencies[i].email # agencies[j].email
    /\ (last.handler = "agency_register" /\ last.outcome = "duplicate")
       => \E i \in 1..Len(agencies) :
              \/ agencies[i].name = last.name.s
              \/ agencies[i].email = last.email.s

====
